---- MODULE Spec2Model ----
(***************************************************************************)
(* A model of the libp2p-messaging Router (src/behaviour.rs, Behaviour)    *)
(* and per-connection Handler (src/handler.rs, Handler), together with the *)
(* part of the network runtime (the swarm) that drives them: it polls the  *)
(* Behaviour and the Handlers, executes dial and substream requests and    *)
(* reports connection events.                                              *)
(***************************************************************************)
EXTENDS Integers, Sequences, FiniteSets, Bags, TLC

VARIABLES
    next_outbound_message_id,   \* Behaviour.next_outbound_message_id
    pending_events,             \* Behaviour.pending_events (VecDeque<ToSwarm>)
    pending_outbound_messages,  \* Behaviour.pending_outbound_messages (HashMap)
    connected,                  \* Behaviour.connected (HashMap<PeerId, SmallVec<Connection>>)
    handlers,                   \* the live Handlers, by connection id
    dialing,                    \* swarm: dial requests taken from the Behaviour, not yet answered
    substream_requests,         \* swarm: per connection, the outbound substream requests not yet answered
    next_connection_id,         \* swarm: the next ConnectionId it hands out
    inbound_opened,             \* swarm: inbound substream negotiations so far, failed ones too
    app_events,                 \* history: the bag of events the application has taken
    send_count,                 \* history: the number of send_message calls so far
    returned,                   \* what the last send_message call returned to its caller
    codec,                      \* one Codec call: its scheme, its reader and what it returned
    panic                       \* the message of the panic that ended the Behaviour, if any

vars == <<next_outbound_message_id, pending_events, pending_outbound_messages,
          connected, handlers, dialing, substream_requests, next_connection_id,
          inbound_opened, app_events, send_count, returned, codec, panic>>

----------------------------------------------------------------------------
(* Bounds of the model.                                                    *)

\* MessageId is u64; the model keeps the wrap-around at a smaller width.
IdBits == 2
\* send_message calls and connections explored by Spec, the Router with its Handlers.
MaxSends == 2
MaxConns == 2
\* send_message calls and connections explored by RouterSpec, the Router and the swarm.
MaxRouterSends == 3
MaxRouterConns == 2
\* send_message calls and connections explored by OnePeerSpec, the Router and the
\* swarm with a single peer: enough sends for the identifier to wrap.
MaxOnePeerSends == 5
MaxOnePeerConns == 2
\* inbound substreams the remote peers open in one run.
MaxInbound == 1
\* The end-to-end specification with fairness: sends and connections.
MaxE2ESends == 1
MaxE2EConns == 1
\* One peer's Handlers with both directions of substreams: sends, connections and
\* inbound substreams, enough of them to fill a task pool.
MaxHandlerSends == 2
MaxHandlerConns == 1
MaxHandlerInbound == 2
\* send_message calls and connections explored by SwarmEventsSpec, the Router under
\* every event the swarm reports to it.
MaxSwarmSends == 2
MaxSwarmConns == 2
\* InboundSpec
MaxInboundSends == 1
MaxInboundConns == 1
MaxInboundOpened == 2
\* UntrackedSpec
MaxUntrackedSends == 2
MaxUntrackedConns == 2
\* OrderSpec
MaxOrderSends == 3
MaxOrderConns == 1
\* AddressSpec
MaxAddressSends == 2
MaxAddressConns == 2

Peers == {1, 2}
Payloads == {"hello"}
Addrs == {"addr1"}

\* Config::default().max_concurrent_streams
MaxConcurrentStreams == 3

IdModulus == 2 ^ IdBits
MessageIds == 0 .. (IdModulus - 1)

----------------------------------------------------------------------------
(* HashMap and Option helpers.                                             *)

MapPut(m, k, v) == [x \in (DOMAIN m) \cup {k} |-> IF x = k THEN v ELSE m[x]]
MapRemove(m, k) == [x \in (DOMAIN m) \ {k} |-> m[x]]
EmptyMap == [x \in {} |-> 0]

\* Option<T>: None is <<>>, Some(v) is <<v>>.
None == <<>>
Some(v) == <<v>>

SeqToSet(s) == {s[i] : i \in 1 .. Len(s)}
RemoveAt(s, i) == SubSeq(s, 1, i - 1) \o SubSeq(s, i + 1, Len(s))

\* Every order in which the elements of a finite set can be iterated.
RECURSIVE Orders(_)
Orders(S) ==
    IF S = {} THEN {<<>>}
    ELSE UNION {{<<x>> \o t : t \in Orders(S \ {x})} : x \in S}

----------------------------------------------------------------------------
(* Types of src/behaviour.rs, src/event.rs (as used by behaviour.rs and    *)
(* handler.rs) and libp2p's ToSwarm.                                       *)

OutboundMessage(peer_id, message_id, message) ==
    [peer_id |-> peer_id, message_id |-> message_id, message |-> message]

Connection(id, remote_address) ==
    [id |-> id, remote_address |-> remote_address, pending_messages |-> {}]

MessageSent(message_id) == [type |-> "MessageSent", message_id |-> message_id]
OutboundFailure(peer_id, message_id, error) ==
    [type |-> "OutboundFailure", peer_id |-> peer_id, message_id |-> message_id,
     error |-> error]
InboundFailure(peer_id, message_id, error) ==
    [type |-> "InboundFailure", peer_id |-> peer_id, message_id |-> message_id,
     error |-> error]
ReceivedMessage(peer_id, message) ==
    [type |-> "ReceivedMessage", peer_id |-> peer_id, message |-> message]
ErrorEvent(error) == [type |-> "Error", error |-> error]

Dial(peer_id) == [type |-> "Dial", peer_id |-> peer_id]
NotifyHandler(peer_id, handler, event) ==
    [type |-> "NotifyHandler", peer_id |-> peer_id, handler |-> handler,
     event |-> event]
GenerateEvent(event) == [type |-> "GenerateEvent", event |-> event]

----------------------------------------------------------------------------
(* src/handler.rs: Handler.                                                *)

\* Handler::new
HandlerNew(peer_id) ==
    [peer_id |-> peer_id,
     requested_outbound |-> <<>>,
     pending_outbound |-> <<>>,
     pending_events |-> <<>>,
     tasks |-> EmptyBag]

\* A variant that puts the message at the front of the queue.
OnBehaviourEventFront(h, msg) ==
    [h EXCEPT !.pending_outbound = <<msg>> \o @]

\* Handler::on_behaviour_event
OnBehaviourEvent(h, msg) ==
    [h EXCEPT !.pending_outbound = Append(@, msg)]

\* A variant without the capacity.
TryPushUnbounded(tasks, task) == tasks (+) SetToBag({task})

\* futures_bounded::FuturesSet::try_push: the task is dropped at capacity.
TryPush(tasks, task) ==
    IF BagCardinality(tasks) >= MaxConcurrentStreams
    THEN tasks
    ELSE tasks (+) SetToBag({task})

EncodeTask(message) == [kind |-> "encode", message_id |-> message.message_id]
DecodeTask == [kind |-> "decode"]

----------------------------------------------------------------------------
(* src/behaviour.rs: Behaviour.                                            *)

\* Mutant of WrappingAdd: a saturating add in place of the wrapping one.
WrappingAddSaturating(id) == IF id = IdModulus - 1 THEN id ELSE id + 1

\* Behaviour::next_outbound_message_id: u64::wrapping_add(1)
WrappingAdd(id) == (id + 1) % IdModulus

\* Mutant of RouteIndex: the index is taken one too far.
RouteIndexOffByOne(message_id, len) == (message_id + 1) % len

\* Behaviour::try_send_request: the index of the connection that carries the message.
RouteIndex(message_id, len) == message_id % len

\* Mutant of TrySendRequest: the connection map is not consulted.
TrySendRequestAlwaysQueues(message) ==
    [returned |-> Some(message),
     connected |-> connected,
     pending_events |-> pending_events]

\* Behaviour::try_send_request, as the Option it returns and the fields it leaves.
TrySendRequest(message) ==
    IF message.peer_id \in DOMAIN connected
    THEN LET connections == connected[message.peer_id] IN
         IF connections = <<>>
         THEN [returned |-> Some(message),
               connected |-> connected,
               pending_events |-> pending_events]
         ELSE LET ix == RouteIndex(message.message_id, Len(connections))
                  conn == connections[ix + 1]
              IN  [returned |-> None,
                   connected |->
                       [connected EXCEPT ![message.peer_id][ix + 1].pending_messages =
                                             @ \cup {message.message_id}],
                   pending_events |->
                       Append(pending_events,
                              NotifyHandler(message.peer_id, conn.id, message))]
    ELSE [returned |-> Some(message),
          connected |-> connected,
          pending_events |-> pending_events]

\* HashMap::entry(peer_id).or_default().push(message)
EntryPush(map, peer_id, message) ==
    MapPut(map, peer_id,
           Append(IF peer_id \in DOMAIN map THEN map[peer_id] ELSE <<>>, message))

\* Behaviour::send_message. It returns (): the identifier is not handed back.
SendMessage(peer_id, payload, limit) ==
    /\ send_count < limit
    /\ LET message_id == next_outbound_message_id
           message == OutboundMessage(peer_id, message_id, payload)
           r == TrySendRequest(message)
       IN  /\ next_outbound_message_id' = WrappingAdd(next_outbound_message_id)
           /\ connected' = r.connected
           /\ IF r.returned # None
              THEN /\ pending_events' = Append(r.pending_events, Dial(peer_id))
                   /\ pending_outbound_messages' =
                          EntryPush(pending_outbound_messages, peer_id, r.returned[1])
              ELSE /\ pending_events' = r.pending_events
                   /\ UNCHANGED pending_outbound_messages
           /\ send_count' = send_count + 1
           /\ returned' = <<>>
    /\ UNCHANGED <<codec, panic, handlers, dialing, substream_requests, next_connection_id,
                   inbound_opened, app_events>>

\* Mutant of FlushInto: the queue is handed over newest first.
RECURSIVE FlushIntoReversed(_, _)
FlushIntoReversed(handler, pending_messages) ==
    IF pending_messages = <<>>
    THEN handler
    ELSE OnBehaviourEvent(FlushIntoReversed(handler, Tail(pending_messages)),
                          Head(pending_messages))

\* Behaviour::on_connection_established: the queued messages handed to the new Handler.
RECURSIVE FlushInto(_, _)
FlushInto(handler, pending_messages) ==
    IF pending_messages = <<>>
    THEN handler
    ELSE FlushInto(OnBehaviourEvent(handler, Head(pending_messages)),
                   Tail(pending_messages))

\* Behaviour::on_connection_established: the Connection record pushed onto the map.
EstablishedConnection(connection_id, remote_address, pending_messages) ==
    [Connection(connection_id, remote_address) EXCEPT
        !.pending_messages = {pending_messages[i].message_id :
                                 i \in 1 .. Len(pending_messages)}]

\* Behaviour::handle_established_inbound_connection / _outbound_connection, both of
\* which build the Handler and call Behaviour::on_connection_established.
HandleEstablishedConnection(peer_id, remote_address, outbound, limit) ==
    /\ next_connection_id <= limit
    /\ outbound => dialing[peer_id] > 0
    /\ LET connection_id == next_connection_id
           pending == IF peer_id \in DOMAIN pending_outbound_messages
                      THEN pending_outbound_messages[peer_id]
                      ELSE <<>>
           handler == FlushInto(HandlerNew(peer_id), pending)
           connection == EstablishedConnection(connection_id, Some(remote_address), pending)
       IN  /\ pending_outbound_messages' = MapRemove(pending_outbound_messages, peer_id)
           /\ connected' = EntryPush(connected, peer_id, connection)
           /\ handlers' = MapPut(handlers, connection_id, handler)
           /\ substream_requests' = MapPut(substream_requests, connection_id, <<>>)
           /\ next_connection_id' = next_connection_id + 1
    /\ dialing' = IF outbound THEN [dialing EXCEPT ![peer_id] = @ - 1] ELSE dialing
    /\ UNCHANGED <<codec, panic, next_outbound_message_id, pending_events, inbound_opened,
                   app_events, send_count, returned>>

\* Mutant of ClosedEvents: the first identifier of the iteration gets no event.
ClosedEventsSkipFirst(peer_id, order) ==
    [i \in 1 .. (Len(order) - 1) |->
        GenerateEvent(InboundFailure(peer_id, order[i + 1], "ConnectionClosed"))]

\* Behaviour::on_connection_closed: the failure events, in one iteration order of the
\* HashSet of pending identifiers.
ClosedEvents(peer_id, order) ==
    [i \in 1 .. Len(order) |->
        GenerateEvent(InboundFailure(peer_id, order[i], "ConnectionClosed"))]

\* A variant that keeps the peer's entry when its last connection goes.
RemoveConnectionKeepsPeer(map, peer_id, p) ==
    [map EXCEPT ![peer_id] = RemoveAt(map[peer_id], p)]

\* Behaviour::on_connection_closed: connections.remove(p), and the peer's entry with
\* its last connection.
RemoveConnection(map, peer_id, p) ==
    LET connections == RemoveAt(map[peer_id], p)
    IN  IF connections = <<>>
        THEN MapRemove(map, peer_id)
        ELSE [map EXCEPT ![peer_id] = connections]

\* Behaviour::on_connection_closed for a connection the Router tracks, as the swarm
\* reports only connections it established (the two expect() calls do not fire; where
\* they do is OnConnectionClosedPanics); remaining_established is the number left.
OnConnectionClosed(peer_id, connection_id) ==
    /\ peer_id \in DOMAIN connected
    /\ \E p \in 1 .. Len(connected[peer_id]) :
          /\ connected[peer_id][p].id = connection_id
          /\ LET connection == connected[peer_id][p]
             IN  /\ connected' = RemoveConnection(connected, peer_id, p)
                 /\ \E order \in Orders(connection.pending_messages) :
                       pending_events' = pending_events \o ClosedEvents(peer_id, order)
    /\ handlers' = MapRemove(handlers, connection_id)
    /\ substream_requests' = MapRemove(substream_requests, connection_id)
    /\ UNCHANGED <<codec, panic, next_outbound_message_id, pending_outbound_messages, dialing,
                   next_connection_id, inbound_opened, app_events, send_count, returned>>

\* A variant that looks for the peer only.
ClosedPanicPeerOnly(map, peer_id, connection_id) ==
    IF peer_id \notin DOMAIN map
    THEN Some("Expected some established connection to peer before closing.")
    ELSE None

\* Behaviour::on_connection_closed, the two expect() calls: the message of the panic
\* for a peer that has no entry in the map or a connection that is not in the peer's
\* list, None where neither fires.
ClosedPanic(map, peer_id, connection_id) ==
    IF peer_id \notin DOMAIN map
    THEN Some("Expected some established connection to peer before closing.")
    ELSE IF \A p \in 1 .. Len(map[peer_id]) : map[peer_id][p].id # connection_id
    THEN Some("Expected connection to be established before closing.")
    ELSE None

\* Behaviour::on_connection_closed for a connection the Router does not track: the
\* expect() panics before anything is removed or queued.
OnConnectionClosedPanics(peer_id, connection_id) ==
    /\ ClosedPanic(connected, peer_id, connection_id) # None
    /\ panic' = ClosedPanic(connected, peer_id, connection_id)
    /\ UNCHANGED <<codec, next_outbound_message_id, pending_events,
                   pending_outbound_messages, connected, handlers, dialing,
                   substream_requests, next_connection_id, inbound_opened, app_events,
                   send_count, returned>>

\* Mutant of DialFailureEvents: only the oldest queued message gets an event.
DialFailureEventsFirstOnly(peer, pending) ==
    [i \in 1 .. (IF pending = <<>> THEN 0 ELSE 1) |->
        GenerateEvent(OutboundFailure(peer, pending[i].message_id, "DialFailure"))]

\* Behaviour::on_dial_failure: the failure events for the peer's queued messages.
DialFailureEvents(peer, pending) ==
    [i \in 1 .. Len(pending) |->
        GenerateEvent(OutboundFailure(peer, pending[i].message_id, "DialFailure"))]

\* Behaviour::on_dial_failure; peer_id is an Option<PeerId>.
OnDialFailure(peer_id) ==
    /\ IF peer_id # None
       THEN LET peer == peer_id[1] IN
            /\ dialing[peer] > 0
            /\ dialing' = [dialing EXCEPT ![peer] = @ - 1]
            /\ IF peer \in DOMAIN pending_outbound_messages
               THEN /\ pending_outbound_messages' =
                           MapRemove(pending_outbound_messages, peer)
                    /\ pending_events' =
                           pending_events \o
                           DialFailureEvents(peer, pending_outbound_messages[peer])
               ELSE UNCHANGED <<pending_outbound_messages, pending_events>>
       ELSE UNCHANGED <<dialing, pending_outbound_messages, pending_events>>
    /\ UNCHANGED <<codec, panic, next_outbound_message_id, connected, handlers, substream_requests,
                   next_connection_id, inbound_opened, app_events, send_count, returned>>

\* A variant that moves every connection of the peer to the new address.
AddressChangedEveryConnection(connections, connection_id, new) ==
    [i \in 1 .. Len(connections) |->
        [connections[i] EXCEPT !.remote_address = Some(new)]]

\* Behaviour::on_address_change: the remote address of the matching connection of the
\* peer's list; the connections the list holds otherwise.
AddressChanged(connections, connection_id, new) ==
    [i \in 1 .. Len(connections) |->
        IF connections[i].id = connection_id
        THEN [connections[i] EXCEPT !.remote_address = Some(new)]
        ELSE connections[i]]

\* Behaviour::on_address_change. An untracked peer or connection changes nothing.
OnAddressChange(peer_id, connection_id, new) ==
    /\ connected' = IF peer_id \in DOMAIN connected
                    THEN [connected EXCEPT ![peer_id] =
                             AddressChanged(@, connection_id, new)]
                    ELSE connected
    /\ UNCHANGED <<codec, panic, next_outbound_message_id, pending_events,
                   pending_outbound_messages, handlers, dialing, substream_requests,
                   next_connection_id, inbound_opened, app_events, send_count,
                   returned>>

\* A variant that loses the Handler's event.
OnConnectionHandlerEventLost(events, event) == events

\* Behaviour::on_connection_handler_event: the event is queued for the application;
\* no connection's pending_messages is touched.
OnConnectionHandlerEvent(events, event) == Append(events, GenerateEvent(event))

\* Behaviour::poll, with what the swarm does with the ToSwarm it returns: it starts the
\* dial, hands the message to the Handler of the named connection (dropping it when
\* that connection is gone) or hands the event to the application.
BehaviourPoll ==
    /\ pending_events # <<>>
    /\ LET event == Head(pending_events) IN
       /\ pending_events' = Tail(pending_events)
       /\ \/ /\ event.type = "Dial"
             /\ dialing' = [dialing EXCEPT ![event.peer_id] = @ + 1]
             /\ UNCHANGED <<handlers, app_events>>
          \/ /\ event.type = "NotifyHandler"
             /\ handlers' = IF event.handler \in DOMAIN handlers
                            THEN [handlers EXCEPT ![event.handler] =
                                      OnBehaviourEvent(@, event.event)]
                            ELSE handlers
             /\ UNCHANGED <<dialing, app_events>>
          \/ /\ event.type = "GenerateEvent"
             /\ app_events' = app_events (+) SetToBag({event.event})
             /\ UNCHANGED <<dialing, handlers>>
    /\ UNCHANGED <<codec, panic, next_outbound_message_id, pending_outbound_messages, connected,
                   substream_requests, next_connection_id, inbound_opened, send_count, returned>>

----------------------------------------------------------------------------
(* src/handler.rs: the Handler's callbacks.                                *)

\* A variant in which an encode task that ran out of time still reports its message.
TaskEventPastDeadline(h, task, outcome, payload) ==
    IF outcome = "Err" THEN ErrorEvent("DecodeError")
    ELSE IF task.kind = "encode" THEN MessageSent(task.message_id)
    ELSE IF outcome = "Timeout" THEN ErrorEvent("Timeout")
    ELSE ReceivedMessage(h.peer_id, payload)

\* The event a finished task of Handler.tasks yields (on_fully_negotiated_outbound /
\* _inbound build the futures; Handler::poll maps a timeout).
TaskEvent(h, task, outcome, payload) ==
    IF outcome = "Timeout" THEN ErrorEvent("Timeout")
    ELSE IF outcome = "Err" THEN ErrorEvent("DecodeError")
    ELSE IF task.kind = "encode" THEN MessageSent(task.message_id)
    ELSE ReceivedMessage(h.peer_id, payload)

\* Handler::poll, first branch: self.tasks.poll_unpin is Ready. A task makes progress
\* only while it is polled here, so a task that finishes (Ok, Err) or times out does so
\* in this step; the swarm passes the NotifyBehaviour to the Behaviour.
HandlerPollTask(c, task, outcome, payload) ==
    /\ c \in DOMAIN handlers
    /\ task \in BagToSet(handlers[c].tasks)
    /\ handlers' = [handlers EXCEPT ![c].tasks = @ (-) SetToBag({task})]
    /\ pending_events' =
           OnConnectionHandlerEvent(pending_events,
                                    TaskEvent(handlers[c], task, outcome, payload))
    /\ UNCHANGED <<codec, panic, next_outbound_message_id, pending_outbound_messages, connected,
                   dialing, substream_requests, next_connection_id, inbound_opened,
                   app_events, send_count, returned>>

\* Handler::poll, second branch: no task is ready and pending_events is drained by one.
HandlerPollEvent(c) ==
    /\ c \in DOMAIN handlers
    /\ handlers[c].pending_events # <<>>
    /\ handlers' = [handlers EXCEPT ![c].pending_events = Tail(@)]
    /\ pending_events' =
           OnConnectionHandlerEvent(pending_events, Head(handlers[c].pending_events))
    /\ UNCHANGED <<codec, panic, next_outbound_message_id, pending_outbound_messages, connected,
                   dialing, substream_requests, next_connection_id, inbound_opened,
                   app_events, send_count, returned>>

\* Handler::poll, third branch: the oldest pending_outbound message moves to
\* requested_outbound and one OutboundSubstreamRequest goes to the swarm.
HandlerPollOutbound(c) ==
    /\ c \in DOMAIN handlers
    /\ handlers[c].pending_events = <<>>
    /\ handlers[c].pending_outbound # <<>>
    /\ LET message == Head(handlers[c].pending_outbound) IN
       /\ handlers' = [handlers EXCEPT
                          ![c].pending_outbound = Tail(@),
                          ![c].requested_outbound = Append(@, message)]
       /\ substream_requests' =
              [substream_requests EXCEPT ![c] = Append(@, message.message_id)]
    /\ UNCHANGED <<codec, panic, next_outbound_message_id, pending_events, pending_outbound_messages,
                   connected, dialing, next_connection_id, inbound_opened, app_events,
                   send_count, returned>>

\* Handler::poll. Poll::Pending changes nothing and is not a step of the model.
HandlerPoll(c) ==
    \/ \E task \in {EncodeTask([message_id |-> m]) : m \in MessageIds} \cup {DecodeTask},
          outcome \in {"Ok", "Err", "Timeout"}, payload \in Payloads :
          HandlerPollTask(c, task, outcome, payload)
    \/ HandlerPollEvent(c)
    \/ HandlerPollOutbound(c)

\* Handler::on_fully_negotiated_outbound, on the swarm's answer to the oldest
\* outstanding substream request of the connection.
OnFullyNegotiatedOutbound(c) ==
    /\ c \in DOMAIN handlers
    /\ substream_requests[c] # <<>>
    /\ handlers[c].requested_outbound # <<>>
    /\ LET message == Head(handlers[c].requested_outbound) IN
       /\ handlers' = [handlers EXCEPT
                          ![c].requested_outbound = Tail(@),
                          ![c].tasks = TryPush(@, EncodeTask(message))]
    /\ substream_requests' = [substream_requests EXCEPT ![c] = Tail(@)]
    /\ UNCHANGED <<codec, panic, next_outbound_message_id, pending_events, pending_outbound_messages,
                   connected, dialing, next_connection_id, inbound_opened, app_events,
                   send_count, returned>>

\* StreamUpgradeError: Apply is not among them, the upgrade's error being Infallible.
UpgradeErrors == {"Timeout", "NegotiationFailed", "Io"}

\* A variant that reports every negotiation error as a timeout of the upgrade.
DialUpgradeErrorAllTimeouts(h, error) ==
    [h EXCEPT !.requested_outbound = Tail(@),
              !.pending_events =
                  Append(@, OutboundFailure(h.peer_id,
                                            Head(h.requested_outbound).message_id,
                                            "DialUpgradeError"))]

\* Handler::on_dial_upgrade_error: the Handler's fields after the error.
DialUpgradeError(h, error) ==
    LET message == Head(h.requested_outbound)
        popped == [h EXCEPT !.requested_outbound = Tail(@)]
    IN  IF error = "Timeout"
        THEN [popped EXCEPT !.pending_events =
                 Append(@, OutboundFailure(h.peer_id, message.message_id,
                                           "DialUpgradeError"))]
        ELSE IF error = "NegotiationFailed"
        THEN [popped EXCEPT !.pending_events =
                 Append(@, OutboundFailure(h.peer_id, message.message_id,
                                           "ProtocolNotSupported"))]
        ELSE IF error = "Io"
        THEN [popped EXCEPT !.requested_outbound = Append(@, message)]
        ELSE popped

\* Handler::on_dial_upgrade_error, on the swarm's answer to the oldest outstanding
\* substream request of the connection.
OnDialUpgradeError(c, error) ==
    /\ c \in DOMAIN handlers
    /\ substream_requests[c] # <<>>
    /\ handlers[c].requested_outbound # <<>>
    /\ handlers' = [handlers EXCEPT ![c] = DialUpgradeError(@, error)]
    /\ substream_requests' = [substream_requests EXCEPT ![c] = Tail(@)]
    /\ UNCHANGED <<codec, panic, next_outbound_message_id, pending_events, pending_outbound_messages,
                   connected, dialing, next_connection_id, inbound_opened, app_events,
                   send_count, returned>>

\* Handler::on_fully_negotiated_inbound
OnFullyNegotiatedInbound(c, limit) ==
    /\ c \in DOMAIN handlers
    /\ inbound_opened < limit
    /\ inbound_opened' = inbound_opened + 1
    /\ handlers' = [handlers EXCEPT ![c].tasks = TryPush(@, DecodeTask)]
    /\ UNCHANGED <<codec, panic, next_outbound_message_id, pending_events, pending_outbound_messages,
                   connected, dialing, substream_requests, next_connection_id,
                   app_events, send_count, returned>>

\* A variant that reports the error to the Behaviour.
ListenUpgradeErrorReported(h) ==
    [h EXCEPT !.pending_events = Append(@, ErrorEvent("ListenUpgradeError"))]

\* Handler::on_listen_upgrade_error takes &self and only logs a warning: the Handler's
\* fields after the error.
ListenUpgradeError(h) == h

\* Handler::on_listen_upgrade_error, when the negotiation of a substream the remote
\* opened has failed.
OnListenUpgradeError(c, limit) ==
    /\ c \in DOMAIN handlers
    /\ inbound_opened < limit
    /\ inbound_opened' = inbound_opened + 1
    /\ handlers' = [handlers EXCEPT ![c] = ListenUpgradeError(@)]
    /\ UNCHANGED <<codec, panic, next_outbound_message_id, pending_events, pending_outbound_messages,
                   connected, dialing, substream_requests, next_connection_id,
                   app_events, send_count, returned>>

----------------------------------------------------------------------------
(* The codecs (src/codecs/bincode.rs, src/codecs/prost.rs).                *)

\* const MAX_MESSAGE_SIZE: usize = 4 * 1024 * 1024, the same in both codecs.
MAX_MESSAGE_SIZE == 4 * 1024 * 1024

Schemes == {"bincode", "prost"}

\* An I/O stream as the codec sees it: the bytes of the length prefix, and the number
\* of bytes that follow them (their values matter to the deserializer only).
Stream(prefix, rest) == [prefix |-> prefix, rest |-> rest]

\* u32::from_be_bytes(len_buf) as usize
FromBeBytes(b) == ((b[1] * 256 + b[2]) * 256 + b[3]) * 256 + b[4]

\* A variant that also rejects the maximum itself.
TooLargeAtMaximum(len) == len >= MAX_MESSAGE_SIZE

\* if len > MAX_MESSAGE_SIZE
TooLarge(len) == len > MAX_MESSAGE_SIZE

\* std::io::Result of a decode_from call, with the number of bytes it took from the
\* reader.
Ok(message, read) == [ok |-> TRUE, message |-> message, read |-> read]
Err(error, read) == [ok |-> FALSE, error |-> error, read |-> read]

\* What the wire scheme's deserializer does with a buffer is given with the call: it
\* fails, or it yields a message and leaves `left` bytes of the buffer unconsumed.
Deserialized(message, left) == [ok |-> TRUE, message |-> message, left |-> left]
DeserializeError == [ok |-> FALSE]

\* BincodeCodec::decode_from
BincodeDecodeFrom(reader, deserialize) ==
    IF Len(reader.prefix) < 4
    THEN Err("UnexpectedEof", Len(reader.prefix))
    ELSE LET len == FromBeBytes(reader.prefix) IN
         IF TooLarge(len)
         THEN Err("message too large", 4)
         ELSE IF reader.rest < len
         THEN Err("UnexpectedEof", 4 + reader.rest)
         ELSE IF ~deserialize.ok
         THEN Err("DecodeError", 4 + len)
         ELSE LET bytes_read == len - deserialize.left IN
              IF bytes_read # len
              THEN Err("bytes remaining in buffer", 4 + len)
              ELSE Ok(deserialize.message, 4 + len)

\* ProstCodec::decode_from
ProstDecodeFrom(reader, deserialize) ==
    IF Len(reader.prefix) < 4
    THEN Err("UnexpectedEof", Len(reader.prefix))
    ELSE LET len == FromBeBytes(reader.prefix) IN
         IF TooLarge(len)
         THEN Err("message too large", 4)
         ELSE IF reader.rest < len
         THEN Err("UnexpectedEof", 4 + reader.rest)
         ELSE IF ~deserialize.ok
         THEN Err("DecodeError", 4 + len)
         ELSE LET slice_is_empty == deserialize.left = 0 IN
              IF slice_is_empty
              THEN Err("bytes remaining in buffer", 4 + len)
              ELSE Ok(deserialize.message, 4 + len)

\* Codec::decode_from of the scheme chosen at construction.
DecodeFrom(scheme, reader, deserialize) ==
    IF scheme = "bincode"
    THEN BincodeDecodeFrom(reader, deserialize)
    ELSE ProstDecodeFrom(reader, deserialize)

\* The outcome of an encode_to call, with what it wrote to the writer.
Panicked(message, written) ==
    [ok |-> FALSE, panic |-> message, written |-> written]

\* BincodeCodec::encode_to: todo!()
BincodeEncodeTo(message) == Panicked("not yet implemented", Stream(<<>>, 0))

\* ProstCodec::encode_to: todo!()
ProstEncodeTo(message) == Panicked("not yet implemented", Stream(<<>>, 0))

\* Codec::encode_to of the scheme chosen at construction.
EncodeTo(scheme, message) ==
    IF scheme = "bincode" THEN BincodeEncodeTo(message) ELSE ProstEncodeTo(message)

----------------------------------------------------------------------------
(* The system.                                                             *)

\* ConnectionId: the swarm numbers the connections it establishes.
ConnectionIds == 1 .. 4

\* Behaviour::new, before the swarm has reported anything.
Init ==
    /\ next_outbound_message_id = 0
    /\ pending_events = <<>>
    /\ pending_outbound_messages = EmptyMap
    /\ connected = EmptyMap
    /\ handlers = EmptyMap
    /\ dialing = [p \in Peers |-> 0]
    /\ substream_requests = EmptyMap
    /\ next_connection_id = 1
    /\ inbound_opened = 0
    /\ app_events = EmptyBag
    /\ send_count = 0
    /\ returned = <<>>
    /\ codec = <<>>
    /\ panic = None

Next ==
    \/ \E p \in Peers, m \in Payloads : SendMessage(p, m, MaxSends)
    \/ \E p \in Peers, a \in Addrs, outbound \in BOOLEAN :
          HandleEstablishedConnection(p, a, outbound, MaxConns)
    \/ \E p \in Peers, c \in ConnectionIds : OnConnectionClosed(p, c)
    \/ \E p \in {None} \cup {Some(q) : q \in Peers} : OnDialFailure(p)
    \/ BehaviourPoll
    \/ \E c \in ConnectionIds : HandlerPoll(c)
    \/ \E c \in ConnectionIds : OnFullyNegotiatedOutbound(c)
    \/ \E c \in ConnectionIds, e \in UpgradeErrors : OnDialUpgradeError(c, e)
    \/ \E c \in ConnectionIds : OnFullyNegotiatedInbound(c, MaxInbound)

Spec == Init /\ [][Next]_vars

\* The Router and the swarm: the application sends, the swarm reports connections and
\* dial failures and polls the Behaviour, and the Handlers are handed their messages
\* but are not polled.
RouterNext ==
    \/ \E p \in Peers, m \in Payloads : SendMessage(p, m, MaxRouterSends)
    \/ \E p \in Peers, a \in Addrs, outbound \in BOOLEAN :
          HandleEstablishedConnection(p, a, outbound, MaxRouterConns)
    \/ \E p \in Peers, c \in ConnectionIds : OnConnectionClosed(p, c)
    \/ \E p \in {None} \cup {Some(q) : q \in Peers} : OnDialFailure(p)
    \/ BehaviourPoll

RouterSpec == Init /\ [][RouterNext]_vars

\* The same with every send addressed to one peer.
OnePeers == {2}

OnePeerNext ==
    \/ \E p \in OnePeers, m \in Payloads : SendMessage(p, m, MaxOnePeerSends)
    \/ \E p \in OnePeers, a \in Addrs, outbound \in BOOLEAN :
          HandleEstablishedConnection(p, a, outbound, MaxOnePeerConns)
    \/ \E p \in OnePeers, c \in ConnectionIds : OnConnectionClosed(p, c)
    \/ \E p \in {None} \cup {Some(q) : q \in OnePeers} : OnDialFailure(p)
    \/ BehaviourPoll

OnePeerSpec == Init /\ [][OnePeerNext]_vars

\* One message end to end: the application, the swarm's connection reports, the
\* Handlers' outbound side and both poll loops. The swarm polls the Behaviour and
\* every Handler again whenever they have work, which is weak fairness of the polls.
E2ENext ==
    \/ \E p \in Peers, m \in Payloads : SendMessage(p, m, MaxE2ESends)
    \/ \E p \in Peers, a \in Addrs, outbound \in BOOLEAN :
          HandleEstablishedConnection(p, a, outbound, MaxE2EConns)
    \/ \E p \in Peers, c \in ConnectionIds : OnConnectionClosed(p, c)
    \/ \E p \in {None} \cup {Some(q) : q \in Peers} : OnDialFailure(p)
    \/ BehaviourPoll
    \/ \E c \in ConnectionIds : HandlerPoll(c)
    \/ \E c \in ConnectionIds : OnFullyNegotiatedOutbound(c)
    \/ \E c \in ConnectionIds, e \in UpgradeErrors : OnDialUpgradeError(c, e)

E2ESpec ==
    /\ Init
    /\ [][E2ENext]_vars
    /\ WF_vars(BehaviourPoll)
    /\ \A c \in ConnectionIds : WF_vars(HandlerPoll(c))

\* The addresses a connection can move to.
NewAddrs == {"addr1", "addr2"}

\* The Router under every event the swarm reports to it: connections established and
\* closed, address changes and dial failures, in any order with the sends and polls.
SwarmEventsNext ==
    \/ \E p \in Peers, m \in Payloads : SendMessage(p, m, MaxSwarmSends)
    \/ \E p \in Peers, a \in Addrs, outbound \in BOOLEAN :
          HandleEstablishedConnection(p, a, outbound, MaxSwarmConns)
    \/ \E p \in Peers, c \in ConnectionIds : OnConnectionClosed(p, c)
    \/ \E p \in Peers, c \in ConnectionIds, a \in NewAddrs : OnAddressChange(p, c, a)
    \/ \E p \in {None} \cup {Some(q) : q \in Peers} : OnDialFailure(p)
    \/ BehaviourPoll

SwarmEventsSpec == Init /\ [][SwarmEventsNext]_vars

\* The connections of one peer under address changes the swarm reports for any peer
\* and any connection id, tracked or not.
AddressNext ==
    \/ \E p \in OnePeers, m \in Payloads : SendMessage(p, m, MaxAddressSends)
    \/ \E p \in OnePeers, a \in Addrs, outbound \in BOOLEAN :
          HandleEstablishedConnection(p, a, outbound, MaxAddressConns)
    \/ \E p \in OnePeers, c \in ConnectionIds : OnConnectionClosed(p, c)
    \/ \E p \in Peers, c \in ConnectionIds, a \in NewAddrs : OnAddressChange(p, c, a)
    \/ BehaviourPoll

AddressSpec == Init /\ [][AddressNext]_vars

\* The Router with a swarm that may report the close of any connection of any peer,
\* tracked or not, until the Behaviour panics: nothing runs after the panic.
UntrackedNext ==
    \/ \E p \in Peers, m \in Payloads :
          panic = None /\ SendMessage(p, m, MaxUntrackedSends)
    \/ \E p \in Peers, a \in Addrs, outbound \in BOOLEAN :
          panic = None /\ HandleEstablishedConnection(p, a, outbound, MaxUntrackedConns)
    \/ \E p \in Peers, c \in ConnectionIds : panic = None /\ OnConnectionClosed(p, c)
    \/ \E p \in Peers, c \in ConnectionIds :
          panic = None /\ OnConnectionClosedPanics(p, c)
    \/ panic = None /\ BehaviourPoll

UntrackedSpec == Init /\ [][UntrackedNext]_vars

\* The way of the messages of one peer to their substream requests: the sends, the
\* connections, the Behaviour's poll and the Handlers' requests. The swarm leaves the
\* requests unanswered, so a Handler has no task and no event and its poll is the
\* request branch; substream_requests keeps every request in the order it was issued.
OrderNext ==
    \/ \E p \in OnePeers, m \in Payloads : SendMessage(p, m, MaxOrderSends)
    \/ \E p \in OnePeers, a \in Addrs, outbound \in BOOLEAN :
          HandleEstablishedConnection(p, a, outbound, MaxOrderConns)
    \/ \E p \in {None} \cup {Some(q) : q \in OnePeers} : OnDialFailure(p)
    \/ BehaviourPoll
    \/ \E c \in ConnectionIds : HandlerPollOutbound(c)

OrderSpec == Init /\ [][OrderNext]_vars

\* The swarm answers a dial request: the connection is established or the dial fails.
DialAnswered(p) ==
    \/ \E a \in Addrs : HandleEstablishedConnection(p, a, TRUE, MaxE2EConns)
    \/ OnDialFailure(Some(p))

\* The swarm answers the oldest substream request of a connection.
SubstreamAnswered(c) ==
    \/ OnFullyNegotiatedOutbound(c)
    \/ \E e \in UpgradeErrors : OnDialUpgradeError(c, e)

\* The same steps with a runtime that answers every dial and every substream request,
\* and with the Behaviour and every Handler polled while they have work.
ResponsiveSpec ==
    /\ Init
    /\ [][E2ENext]_vars
    /\ WF_vars(BehaviourPoll)
    /\ \A c \in ConnectionIds : WF_vars(HandlerPoll(c))
    /\ \A p \in Peers : WF_vars(DialAnswered(p))
    /\ \A c \in ConnectionIds : WF_vars(SubstreamAnswered(c))

\* The Handlers of one peer, with the substreams the remote side opens. The messages
\* reach a Handler with its connection; the events the Handlers report stay queued in
\* the Behaviour, which is not polled here, and the connections stay open.
HandlerNext ==
    \/ \E p \in OnePeers, m \in Payloads : SendMessage(p, m, MaxHandlerSends)
    \/ \E p \in OnePeers, a \in Addrs, outbound \in BOOLEAN :
          HandleEstablishedConnection(p, a, outbound, MaxHandlerConns)
    \/ \E c \in ConnectionIds : HandlerPoll(c)
    \/ \E c \in ConnectionIds : OnFullyNegotiatedOutbound(c)
    \/ \E c \in ConnectionIds, e \in UpgradeErrors : OnDialUpgradeError(c, e)
    \/ \E c \in ConnectionIds : OnFullyNegotiatedInbound(c, MaxHandlerInbound)

HandlerSpec == Init /\ [][HandlerNext]_vars

\* One peer's Handlers with both ends of the inbound negotiation, the substreams that
\* are negotiated and those whose negotiation fails, and with the Behaviour polled,
\* so that what is reported reaches the application.
InboundNext ==
    \/ \E p \in OnePeers, m \in Payloads : SendMessage(p, m, MaxInboundSends)
    \/ \E p \in OnePeers, a \in Addrs, outbound \in BOOLEAN :
          HandleEstablishedConnection(p, a, outbound, MaxInboundConns)
    \/ BehaviourPoll
    \/ \E c \in ConnectionIds : HandlerPoll(c)
    \/ \E c \in ConnectionIds : OnFullyNegotiatedOutbound(c)
    \/ \E c \in ConnectionIds, e \in UpgradeErrors : OnDialUpgradeError(c, e)
    \/ \E c \in ConnectionIds : OnFullyNegotiatedInbound(c, MaxInboundOpened)
    \/ \E c \in ConnectionIds : OnListenUpgradeError(c, MaxInboundOpened)

InboundSpec == Init /\ [][InboundNext]_vars

\* One Codec call on a stream, the Router left as constructed. The streams: every
\* length prefix over a few byte values (64 is the second byte of MAX_MESSAGE_SIZE),
\* cut short or followed by fewer, as many or more bytes than it declares. The byte
\* values stay below 128, which keeps every u32 length within the model checker's
\* signed 32-bit integers.
PrefixBytes == {0, 1, 64, 127}
Prefixes == [1 .. 4 -> PrefixBytes] \cup {<<>>, <<0>>, <<0, 64>>, <<0, 64, 0>>}
Rests == {0, 1, MAX_MESSAGE_SIZE - 1, MAX_MESSAGE_SIZE, MAX_MESSAGE_SIZE + 1}
MessageSizes == {0, 1, MAX_MESSAGE_SIZE}

DeclaredLen(prefix) == IF Len(prefix) = 4 THEN FromBeBytes(prefix) ELSE 0

\* What the deserializer can do with a buffer of len bytes. bincode::decode_from_slice
\* reports the bytes it read, which may be fewer than len; prost::Message::decode
\* merges fields until the buffer is empty, so it leaves nothing when it succeeds.
Deserializers(scheme, len) ==
    {DeserializeError} \cup
    {Deserialized(m, left) :
        m \in Payloads,
        left \in IF scheme = "bincode" THEN {0, 1, len} \cap (0 .. len) ELSE {0}}

CodecInit ==
    /\ \E scheme \in Schemes, prefix \in Prefixes, rest \in Rests,
          m \in Payloads, size \in MessageSizes :
          \E deserialize \in Deserializers(scheme, DeclaredLen(prefix)) :
             codec = [call |-> "none", scheme |-> scheme,
                      reader |-> Stream(prefix, rest), deserialize |-> deserialize,
                      message |-> [payload |-> m, size |-> size],
                      result |-> <<>>, decoded |-> <<>>]
    /\ next_outbound_message_id = 0
    /\ pending_events = <<>>
    /\ pending_outbound_messages = EmptyMap
    /\ connected = EmptyMap
    /\ handlers = EmptyMap
    /\ dialing = [p \in Peers |-> 0]
    /\ substream_requests = EmptyMap
    /\ next_connection_id = 1
    /\ inbound_opened = 0
    /\ app_events = EmptyBag
    /\ send_count = 0
    /\ returned = <<>>
    /\ panic = None

\* codec.decode_from(&mut stream) on the given stream.
CodecDecode ==
    /\ codec.call = "none"
    /\ codec' = [codec EXCEPT
                    !.call = "decode",
                    !.result = DecodeFrom(codec.scheme, codec.reader, codec.deserialize)]
    /\ UNCHANGED <<next_outbound_message_id, pending_events, pending_outbound_messages,
                   connected, handlers, dialing, substream_requests,
                   next_connection_id, inbound_opened, app_events, send_count,
                   returned, panic>>

\* codec.encode_to(&mut stream, message) on an empty stream.
CodecEncode ==
    /\ codec.call = "none"
    /\ codec' = [codec EXCEPT
                    !.call = "encode",
                    !.result = EncodeTo(codec.scheme, codec.message)]
    /\ UNCHANGED <<next_outbound_message_id, pending_events, pending_outbound_messages,
                   connected, handlers, dialing, substream_requests,
                   next_connection_id, inbound_opened, app_events, send_count,
                   returned, panic>>

\* The remote side's codec.decode_from on what encode_to wrote to the stream, with a
\* deserializer that reads back the serializer's bytes in full.
CodecDecodeWritten ==
    /\ codec.call = "encode"
    /\ codec' = [codec EXCEPT
                    !.call = "roundtrip",
                    !.reader = codec.result.written,
                    !.decoded = DecodeFrom(codec.scheme, codec.result.written,
                                           Deserialized(codec.message.payload, 0))]
    /\ UNCHANGED <<next_outbound_message_id, pending_events, pending_outbound_messages,
                   connected, handlers, dialing, substream_requests,
                   next_connection_id, inbound_opened, app_events, send_count,
                   returned, panic>>

CodecNext == CodecDecode \/ CodecEncode \/ CodecDecodeWritten

CodecSpec == CodecInit /\ [][CodecNext]_vars

----------------------------------------------------------------------------
(* Properties of the Router.                                               *)

\* The peer has at least one tracked connection.
HasConnection(p) == p \in DOMAIN connected /\ connected[p] # <<>>

\* The peer's pending queue, empty when the map holds no entry for it.
QueueOf(p) ==
    IF p \in DOMAIN pending_outbound_messages THEN pending_outbound_messages[p] ELSE <<>>

\* The connections of every peer, and the identifiers pending on any of them.
AllConnections == UNION {SeqToSet(connected[p]) : p \in DOMAIN connected}
ConnectionOf(c) == CHOOSE conn \in AllConnections : conn.id = c

\* The steps of each callback, whatever the bound of the specification.
SendStep(p, m) == SendMessage(p, m, send_count + 1)
EstablishedStep(p, a, outbound) ==
    HandleEstablishedConnection(p, a, outbound, next_connection_id)

\* C1: a send to a peer without a tracked connection appends the message to that
\* peer's pending queue and queues one dial request for the peer and nothing for a
\* Handler; a send to a peer with a tracked connection leaves every pending queue as it
\* is and queues no dial request (it queues one command for a Handler).
C1_SendQueuesOrDispatches ==
    [][\A p \in Peers, m \in Payloads :
          SendStep(p, m) =>
             LET message == OutboundMessage(p, next_outbound_message_id, m) IN
             IF ~HasConnection(p)
             THEN /\ p \in DOMAIN pending_outbound_messages'
                  /\ pending_outbound_messages'[p] = Append(QueueOf(p), message)
                  /\ \A q \in Peers \ {p} :
                        /\ q \in DOMAIN pending_outbound_messages'
                             <=> q \in DOMAIN pending_outbound_messages
                        /\ q \in DOMAIN pending_outbound_messages
                             => pending_outbound_messages'[q] = pending_outbound_messages[q]
                  /\ pending_events' = Append(pending_events, Dial(p))
                  /\ connected' = connected
                  /\ handlers' = handlers
             ELSE /\ pending_outbound_messages' = pending_outbound_messages
                  /\ Len(pending_events') = Len(pending_events) + 1
                  /\ SubSeq(pending_events', 1, Len(pending_events)) = pending_events
                  /\ pending_events'[Len(pending_events')].type = "NotifyHandler"
                  /\ pending_events'[Len(pending_events')].event = message
       ]_vars

\* C1 witness: one peer has a queued message and its dial request, while a command for
\* the Handler of another peer's connection is queued.
C1_Witness ==
    \E p \in Peers, q \in Peers :
       /\ p # q
       /\ QueueOf(p) # <<>>
       /\ \E i \in 1 .. Len(pending_events) : pending_events[i] = Dial(p)
       /\ HasConnection(q)
       /\ \E i \in 1 .. Len(pending_events) :
             /\ pending_events[i].type = "NotifyHandler"
             /\ pending_events[i].peer_id = q

\* C2: the step that establishes a connection for a peer hands that peer's queued
\* messages, in queue order, to the new Handler, marks exactly their identifiers
\* pending on the new connection, makes the connection the last of the peer's list
\* and removes the queue; and in no state does a peer with a tracked connection have
\* a queued message, or a Handler hold a message whose identifier is not pending on
\* its connection.
C2_FlushStep ==
    \A p \in Peers, a \in Addrs, outbound \in BOOLEAN :
       EstablishedStep(p, a, outbound) =>
          LET c == next_connection_id
              queue == QueueOf(p)
          IN  /\ c \in DOMAIN handlers'
              /\ handlers'[c].pending_outbound = queue
              /\ p \in DOMAIN connected'
              /\ LET conns == connected'[p] IN
                 /\ conns # <<>>
                 /\ conns[Len(conns)].id = c
                 /\ conns[Len(conns)].pending_messages =
                       {queue[i].message_id : i \in 1 .. Len(queue)}
              /\ p \notin DOMAIN pending_outbound_messages'

C2_NoWindow ==
    /\ \A p \in Peers : HasConnection(p) => QueueOf(p) = <<>>
    /\ \A conn \in AllConnections :
          /\ conn.id \in DOMAIN handlers
          /\ \A i \in 1 .. Len(handlers[conn.id].pending_outbound) :
                handlers[conn.id].pending_outbound[i].message_id
                   \in conn.pending_messages

C2_FlushAtomic == [][C2_FlushStep]_vars /\ []C2_NoWindow

\* C2 witness: two sends were queued (their two dial requests are still in the event
\* queue) and the connection established since holds both, in send order.
C2_Witness ==
    \E p \in Peers :
       /\ send_count = 2
       /\ pending_events = <<Dial(p), Dial(p)>>
       /\ HasConnection(p)
       /\ LET conn == connected[p][1] IN
          /\ conn.pending_messages = {0, 1}
          /\ Len(handlers[conn.id].pending_outbound) = 2
          /\ handlers[conn.id].pending_outbound[1].message_id = 0
          /\ handlers[conn.id].pending_outbound[2].message_id = 1

\* C3: a send to a peer with N >= 1 tracked connections, allocating identifier m,
\* marks m pending on the connection at index m mod N of the peer's list (counted
\* from 0) and on no other, and queues one command for that connection's Handler and
\* for no other; with two connections that is the first for ids 0 and 2 and the
\* second for ids 1 and 3.
C3_RoutesByModulo ==
    [][\A p \in Peers, m \in Payloads :
          (SendStep(p, m) /\ HasConnection(p)) =>
             LET id == next_outbound_message_id
                 N == Len(connected[p])
                 target == (id % N) + 1
             IN  /\ p \in DOMAIN connected'
                 /\ Len(connected'[p]) = N
                 /\ \A i \in 1 .. N :
                       /\ connected'[p][i].id = connected[p][i].id
                       /\ connected'[p][i].pending_messages =
                             IF i = target
                             THEN connected[p][i].pending_messages \cup {id}
                             ELSE connected[p][i].pending_messages
                 /\ pending_events' =
                       Append(pending_events,
                              NotifyHandler(p, connected[p][target].id,
                                            OutboundMessage(p, id, m)))
                 /\ N = 1 => target = 1
                 /\ (N = 2 /\ id \in {0, 2}) => target = 1
                 /\ (N = 2 /\ id \in {1, 3}) => target = 2
       ]_vars

\* C3 witness: a peer's two connections, in the order they were established, hold
\* ids 0 and 2 on the first and ids 1 and 3 on the second, after four sends.
C3_Witness ==
    \E p \in Peers :
       /\ send_count = 4
       /\ HasConnection(p)
       /\ Len(connected[p]) = 2
       /\ connected[p][1].id = 1
       /\ connected[p][1].pending_messages = {0, 2}
       /\ connected[p][2].id = 2
       /\ connected[p][2].pending_messages = {1, 3}

\* The failure events the Behaviour has queued with the given error, in queue order.
QueuedFailures(events, error) ==
    SelectSeq(events,
              LAMBDA e : /\ e.type = "GenerateEvent"
                         /\ e.event.type \in {"InboundFailure", "OutboundFailure"}
                         /\ e.event.error = error)

\* C4: closing a tracked connection whose pending set holds K identifiers appends
\* exactly K events to the event queue, each a connection-closed failure for the
\* connection's peer, one for each identifier of the set and none for any other, and
\* removes the connection from the map (and the peer with its last connection).
C4_CloseFailsEachPending ==
    [][\A p \in Peers, c \in ConnectionIds :
          OnConnectionClosed(p, c) =>
             LET pending == ConnectionOf(c).pending_messages
                 K == Cardinality(pending)
                 added == SubSeq(pending_events', Len(pending_events) + 1,
                                 Len(pending_events'))
             IN  /\ Len(pending_events') = Len(pending_events) + K
                 /\ SubSeq(pending_events', 1, Len(pending_events)) = pending_events
                 /\ \A i \in 1 .. K :
                       /\ added[i].type = "GenerateEvent"
                       /\ added[i].event.type \in {"InboundFailure", "OutboundFailure"}
                       /\ added[i].event.error = "ConnectionClosed"
                       /\ added[i].event.peer_id = p
                       /\ added[i].event.message_id \in pending
                 /\ {added[i].event.message_id : i \in 1 .. K} = pending
                 /\ \A conn \in AllConnections' : conn.id # c
                 /\ \A q \in DOMAIN connected' : connected'[q] # <<>>
       ]_vars

\* C4 witness: a connection with two pending identifiers was closed: it is gone from
\* the map and the event queue ends with the two failures, one per identifier.
C4_Witness ==
    /\ AllConnections = {}
    /\ next_connection_id = 2
    /\ Len(pending_events) >= 2
    /\ LET failures == QueuedFailures(pending_events, "ConnectionClosed") IN
       /\ Len(failures) = 2
       /\ {failures[i].event.message_id : i \in 1 .. 2} = {0, 1}

\* C5: a dial failure for peer P appends one dial-failure event per message of P's
\* pending queue, in queue order, and removes the queue; it leaves the connection map
\* with every pending set, the other peers' queues and the Handlers as they are. A
\* dial failure that carries no peer changes nothing of the Router.
C5_DialFailureFailsQueued ==
    [][/\ \A p \in Peers :
             OnDialFailure(Some(p)) =>
                LET queue == QueueOf(p)
                    M == Len(queue)
                IN  /\ pending_events' =
                          pending_events \o
                          [i \in 1 .. M |->
                              GenerateEvent(OutboundFailure(p, queue[i].message_id,
                                                            "DialFailure"))]
                    /\ p \notin DOMAIN pending_outbound_messages'
                    /\ \A q \in Peers \ {p} :
                          /\ q \in DOMAIN pending_outbound_messages'
                               <=> q \in DOMAIN pending_outbound_messages
                          /\ q \in DOMAIN pending_outbound_messages
                               => pending_outbound_messages'[q] =
                                     pending_outbound_messages[q]
                    /\ connected' = connected
                    /\ handlers' = handlers
                    /\ next_outbound_message_id' = next_outbound_message_id
       /\ OnDialFailure(None) =>
             UNCHANGED <<next_outbound_message_id, pending_events,
                         pending_outbound_messages, connected, handlers>>
      ]_vars

\* C5 witness: two queued messages of one peer were failed by a dial failure while a
\* message dispatched to another peer's connection is still pending there.
C5_Witness ==
    \E p \in Peers, q \in Peers :
       /\ p # q
       /\ p \notin DOMAIN pending_outbound_messages
       /\ LET failures == QueuedFailures(pending_events, "DialFailure") IN
          /\ Len(failures) = 2
          /\ \A i \in 1 .. 2 : failures[i].event.peer_id = p
       /\ HasConnection(q)
       /\ connected[q][1].pending_messages # {}

\* C8: the counter starts at 0 and is the number of sends so far modulo 2^w, w the
\* width of the identifier: the k-th send carries identifier (k-1) mod 2^w in the
\* message it builds, each send adds one to the counter with wrap-around, and no
\* other step changes it.
C8_CounterIsSendCount == next_outbound_message_id = send_count % IdModulus

C8_SendAllocates ==
    /\ \A p \in Peers, m \in Payloads :
          SendStep(p, m) =>
             /\ next_outbound_message_id' = (next_outbound_message_id + 1) % IdModulus
             /\ LET built == IF HasConnection(p)
                             THEN pending_events'[Len(pending_events')].event
                             ELSE pending_outbound_messages'[p][Len(QueueOf(p)) + 1]
                IN  built.message_id = send_count % IdModulus
    /\ next_outbound_message_id' # next_outbound_message_id
          => send_count' = send_count + 1

C8_IdentifiersCountSends == []C8_CounterIsSendCount /\ [][C8_SendAllocates]_vars

\* C8 witness: one more send than there are identifiers: the counter has wrapped.
C8_Witness ==
    /\ send_count = IdModulus + 1
    /\ next_outbound_message_id = 1

----------------------------------------------------------------------------
(* Properties of the Router and its Handlers together.                     *)

ResolutionTypes == {"MessageSent", "OutboundFailure", "InboundFailure"}

\* The number of resolution events for message identifier m that have reached the
\* application.
ResolutionsOf(m) ==
    LET es == {e \in BagToSet(app_events) :
                  e.type \in ResolutionTypes /\ e.message_id = m}
    IN  BagCardinality([e \in es |-> app_events[e]])

\* C6: each message identifier receives at most one resolution event (a
\* sent-confirmation or a failure): a connection close never emits a failure for a
\* message that was already confirmed or already failed.
C6_AtMostOneResolution == \A m \in MessageIds : ResolutionsOf(m) <= 1

\* C7: send returns to the caller the identifier it allocated: after a send, the
\* value the caller got back is the identifier of the message that send built.
C7_SendReturnsId ==
    send_count > 0 =>
       returned = Some((next_outbound_message_id + IdModulus - 1) % IdModulus)

\* C9: the first send, to a peer without a connection, queues a dial request; the
\* connection-established step hands message 0 to the new Handler in that step; the
\* Handler's poll issues exactly one substream request for it; with a free slot among
\* the max_concurrent_streams the negotiated substream starts the encode task, whose
\* success queues the sent-confirmation for id 0; and a queued sent-confirmation for
\* id 0 eventually reaches the application.
C9_Steps ==
    /\ \A p \in Peers, m \in Payloads :
          (SendStep(p, m) /\ send_count = 0 /\ ~HasConnection(p)) =>
             /\ pending_events' = Append(pending_events, Dial(p))
             /\ pending_outbound_messages'[p] = <<OutboundMessage(p, 0, m)>>
    /\ \A p \in Peers, a \in Addrs, outbound \in BOOLEAN :
          (EstablishedStep(p, a, outbound)
              /\ QueueOf(p) # <<>> /\ QueueOf(p)[1].message_id = 0) =>
             /\ handlers'[next_connection_id].pending_outbound = QueueOf(p)
             /\ handlers'[next_connection_id].pending_outbound[1].message_id = 0
             /\ p \notin DOMAIN pending_outbound_messages'
    /\ \A c \in ConnectionIds :
          (HandlerPollOutbound(c) /\ Head(handlers[c].pending_outbound).message_id = 0)
             => /\ substream_requests'[c] = Append(substream_requests[c], 0)
                /\ Head(handlers[c].pending_outbound) \in
                      SeqToSet(handlers'[c].requested_outbound)
                /\ Len(handlers'[c].pending_outbound)
                      = Len(handlers[c].pending_outbound) - 1
    /\ \A c \in ConnectionIds :
          (OnFullyNegotiatedOutbound(c)
              /\ Head(handlers[c].requested_outbound).message_id = 0
              /\ BagCardinality(handlers[c].tasks) < MaxConcurrentStreams) =>
             BagIn([kind |-> "encode", message_id |-> 0], handlers'[c].tasks)
    /\ \A c \in ConnectionIds, payload \in Payloads :
          HandlerPollTask(c, [kind |-> "encode", message_id |-> 0], "Ok", payload) =>
             pending_events' = Append(pending_events, GenerateEvent(MessageSent(0)))

C9_SentQueued == GenerateEvent(MessageSent(0)) \in SeqToSet(pending_events)
C9_SentDelivered == BagIn(MessageSent(0), app_events)

C9_EndToEnd == [][C9_Steps]_vars /\ (C9_SentQueued ~> C9_SentDelivered)

\* C9 witness: the sent-confirmation for id 0 has reached the application for the only
\* message sent; the peer was dialled for it (the dial is still outstanding) and the
\* message went out on the connection that was established meanwhile.
C9_Witness ==
    \E p \in Peers :
       /\ send_count = 1
       /\ dialing[p] = 1
       /\ HasConnection(p)
       /\ BagIn(MessageSent(0), app_events)

\* C10: a Handler issues its substream requests in the order it accepted the
\* messages, each message moving from the head of pending_outbound to the tail of
\* requested_outbound with its request; and at every negotiation response, success
\* or error, the message at the head of requested_outbound is the one the answered
\* request was issued for.
C10_Steps ==
    \A c \in ConnectionIds :
       /\ HandlerPollOutbound(c) =>
             /\ handlers'[c].requested_outbound =
                   Append(handlers[c].requested_outbound,
                          Head(handlers[c].pending_outbound))
             /\ handlers'[c].pending_outbound = Tail(handlers[c].pending_outbound)
       /\ (OnFullyNegotiatedOutbound(c)
             \/ \E e \in UpgradeErrors : OnDialUpgradeError(c, e)) =>
             Head(handlers[c].requested_outbound).message_id
                = Head(substream_requests[c])

C10_FifoCorrelated == [][C10_Steps]_vars

----------------------------------------------------------------------------
(* Properties of the Handler's task pool and substream negotiation.        *)

TasksOf(c) == BagCardinality(handlers[c].tasks)

\* C11: a Handler never holds more than max_concurrent_streams encode and decode
\* tasks together; a substream, inbound or outbound, negotiated while the pool is
\* full leaves the pool as it is, queues its message or task nowhere and produces no
\* event, and the outbound one still takes its message off the correlation queue.
C11_PoolBounded == \A c \in DOMAIN handlers : TasksOf(c) <= MaxConcurrentStreams

C11_DropAtCapacity ==
    \A c \in ConnectionIds :
       /\ (OnFullyNegotiatedOutbound(c) /\ TasksOf(c) = MaxConcurrentStreams) =>
             /\ handlers'[c].tasks = handlers[c].tasks
             /\ handlers'[c].requested_outbound = Tail(handlers[c].requested_outbound)
             /\ handlers'[c].pending_outbound = handlers[c].pending_outbound
             /\ handlers'[c].pending_events = handlers[c].pending_events
             /\ pending_events' = pending_events
       /\ ((\E limit \in 1 .. (inbound_opened + 1) : OnFullyNegotiatedInbound(c, limit))
              /\ TasksOf(c) = MaxConcurrentStreams) =>
             /\ handlers' = handlers
             /\ pending_events' = pending_events
       /\ (OnFullyNegotiatedOutbound(c) /\ TasksOf(c) < MaxConcurrentStreams) =>
             TasksOf(c)' = TasksOf(c) + 1

\* C11: both parts: the pool of a Handler never exceeds MaxConcurrentStreams, and a
\* substream negotiated at capacity is dropped with nothing queued and nothing reported.
C11_BoundedFailFast == []C11_PoolBounded /\ [][C11_DropAtCapacity]_vars

\* C11 witness: four substreams were negotiated on one connection, two outbound and
\* two inbound, and no task has finished: the pool holds three tasks and nothing is
\* queued for the fourth.
C11_Witness ==
    \E c \in DOMAIN handlers :
       /\ TasksOf(c) = MaxConcurrentStreams
       /\ send_count = 2
       /\ inbound_opened = 2
       /\ handlers[c].requested_outbound = <<>>
       /\ handlers[c].pending_outbound = <<>>
       /\ handlers[c].pending_events = <<>>
       /\ substream_requests[c] = <<>>
       /\ \A i \in 1 .. Len(pending_events) : pending_events[i].type = "Dial"

\* A resolution event for message identifier m has reached the application.
Resolved(m) == ResolutionsOf(m) >= 1

\* A task timeout has been reported to the application (it names no message).
TimeoutReported == BagIn(ErrorEvent("Timeout"), app_events)

\* The Handler of connection c holds more messages in requested_outbound than the
\* swarm has substream requests of c to answer.
Stranded(c) ==
    /\ c \in DOMAIN handlers
    /\ Len(handlers[c].requested_outbound) > Len(substream_requests[c])

\* C12: with the polls scheduled fairly and every dial and substream request answered,
\* every message accepted by send is eventually resolved by an event that carries its
\* identifier, unless a task timeout is reported (the pool never overflows here, and a
\* message held back by the I/O-error requeue of C20 is left aside).
C12_EveryMessageResolved ==
    \A m \in MessageIds :
       (send_count > m) ~>
          (Resolved(m) \/ TimeoutReported \/ \E c \in ConnectionIds : Stranded(c))

----------------------------------------------------------------------------
(* Properties of the codecs.                                               *)

\* u32::to_be_bytes: the four bytes of a length, most significant first.
ToBeBytes(n) ==
    <<(n \div (256 * 256 * 256)) % 256, (n \div (256 * 256)) % 256,
      (n \div 256) % 256, n % 256>>

\* C13: for every message whose serialized payload is at most 4,194,304 bytes long and
\* for each scheme, encode terminates having written the 4-byte big-endian length and
\* then the payload, and decode of what it wrote returns the message.
C13_RoundTrip ==
    /\ codec.call \in {"encode", "roundtrip"} =>
          /\ codec.result.ok
          /\ codec.result.written =
                Stream(ToBeBytes(codec.message.size), codec.message.size)
    /\ codec.call = "roundtrip" =>
          /\ codec.decoded.ok
          /\ codec.decoded.message = codec.message.payload

\* The call read a whole frame: four prefix bytes that declare no more than the
\* maximum, and the bytes they declare.
FrameRead ==
    /\ codec.call = "decode"
    /\ Len(codec.reader.prefix) = 4
    /\ DeclaredLen(codec.reader.prefix) <= MAX_MESSAGE_SIZE
    /\ codec.reader.rest >= DeclaredLen(codec.reader.prefix)

\* C14: with either scheme, a frame whose payload the deserializer accepts is decoded
\* to the message exactly when the deserializer consumed all the declared bytes, and
\* is rejected as 'bytes remaining' when it left any.
C14_AcceptsExactlyConsumed ==
    (FrameRead /\ codec.deserialize.ok) =>
       IF codec.deserialize.left = 0
       THEN /\ codec.result.ok
            /\ codec.result.message = codec.deserialize.message
       ELSE /\ ~codec.result.ok
            /\ codec.result.error = "bytes remaining in buffer"

\* C15: decode reads the four prefix bytes first; a declared length above
\* MAX_MESSAGE_SIZE is an error after exactly those four bytes, whatever follows
\* them; a declared length of exactly MAX_MESSAGE_SIZE is not rejected as too large.
C15_OversizedRejectedUnread ==
    (codec.call = "decode" /\ Len(codec.reader.prefix) = 4) =>
       LET len == ((codec.reader.prefix[1] * 256 + codec.reader.prefix[2]) * 256
                      + codec.reader.prefix[3]) * 256 + codec.reader.prefix[4]
       IN  /\ codec.result.read >= 4
           /\ len > 4194304 =>
                 /\ ~codec.result.ok
                 /\ codec.result.error = "message too large"
                 /\ codec.result.read = 4
           /\ len <= 4194304 =>
                 (codec.result.ok \/ codec.result.error # "message too large")
           /\ (len = 4194304 /\ codec.reader.rest >= len) =>
                 codec.result.read = 4 + len

\* C15 witness: a prefix declaring one byte more than the maximum, with that many
\* bytes behind it, was rejected after four bytes.
C15_Witness ==
    /\ codec.call = "decode"
    /\ codec.reader = Stream(<<0, 64, 0, 1>>, 4194305)
    /\ ~codec.result.ok
    /\ codec.result.read = 4

----------------------------------------------------------------------------
(* Invariants of the Router's maps.                                        *)

\* C16: no peer of the connection map has an empty connection list: a connection
\* established for a peer is in the peer's list after the step, and the step that
\* closes a peer's last connection removes the peer's entry.
C16_NoEmptyList == \A p \in DOMAIN connected : Len(connected[p]) >= 1

C16_Steps ==
    /\ \A p \in Peers, a \in Addrs, outbound \in BOOLEAN :
          EstablishedStep(p, a, outbound) =>
             /\ p \in DOMAIN connected'
             /\ Len(connected'[p]) = Len(IF p \in DOMAIN connected
                                         THEN connected[p] ELSE <<>>) + 1
             /\ connected'[p][Len(connected'[p])].id = next_connection_id
    /\ \A p \in Peers, c \in ConnectionIds :
          (OnConnectionClosed(p, c) /\ Len(connected[p]) = 1)
             => p \notin DOMAIN connected'
    /\ \A p \in Peers, c \in ConnectionIds :
          (OnConnectionClosed(p, c) /\ Len(connected[p]) > 1) =>
             /\ p \in DOMAIN connected'
             /\ Len(connected'[p]) = Len(connected[p]) - 1

C16_PeerEntryNeverEmpty == []C16_NoEmptyList /\ [][C16_Steps]_vars

\* C16 witness: a peer's only connection was closed after its address had changed;
\* the peer has no entry, and another peer still has its connection.
C16_Witness ==
    \E p \in Peers, q \in Peers :
       /\ p # q
       /\ next_connection_id = 3
       /\ p \notin DOMAIN connected
       /\ q \in DOMAIN connected
       /\ Len(connected[q]) = 1
       /\ connected[q][1].remote_address = Some("addr2")

\* C17: a peer with at least one tracked connection has no pending queue, or an empty
\* one: the queue of a peer is non-empty only while the peer has no connection.
C17_QueueOnlyWithoutConnection ==
    \A p \in Peers :
       (p \in DOMAIN connected /\ Len(connected[p]) >= 1) =>
          (p \notin DOMAIN pending_outbound_messages
              \/ pending_outbound_messages[p] = <<>>)

\* C17 witness: one peer has a connection whose address has changed and a message
\* pending on it, and no queue, while the other has a queued message and no
\* connection.
C17_Witness ==
    \E p \in Peers, q \in Peers :
       /\ p # q
       /\ HasConnection(p)
       /\ connected[p][1].remote_address = Some("addr2")
       /\ connected[p][1].pending_messages # {}
       /\ p \notin DOMAIN pending_outbound_messages
       /\ ~HasConnection(q)
       /\ QueueOf(q) # <<>>

----------------------------------------------------------------------------
(* Properties of the Handler's substream requests.                         *)

\* C18: a Handler has at most one outbound substream request outstanding: it issues
\* no request while an earlier one is neither negotiated nor failed.
C18_OneRequestOutstanding ==
    \A c \in DOMAIN substream_requests : Len(substream_requests[c]) <= 1

\* The failure events in a Handler's event queue.
HandlerFailures(h) ==
    SelectSeq(h.pending_events, LAMBDA e : e.type = "OutboundFailure")

\* C19: on a negotiation timeout or a protocol rejection the Handler takes the head
\* of requested_outbound and appends exactly one outbound-failure event for that
\* message and its peer, with error dial-upgrade-error for the timeout and
\* protocol-not-supported for the rejection; pending_outbound and the task pool stay
\* as they are, and the Handler goes on: it still accepts a message and still requests
\* the substreams of the messages it holds.
C19_Steps ==
    \A c \in ConnectionIds, e \in {"Timeout", "NegotiationFailed"} :
       OnDialUpgradeError(c, e) =>
          LET h == handlers[c]
              message == Head(h.requested_outbound)
          IN  /\ handlers'[c].requested_outbound = Tail(h.requested_outbound)
              /\ handlers'[c].pending_events =
                    Append(h.pending_events,
                           [type |-> "OutboundFailure", peer_id |-> h.peer_id,
                            message_id |-> message.message_id,
                            error |-> IF e = "Timeout" THEN "DialUpgradeError"
                                      ELSE "ProtocolNotSupported"])
              /\ handlers'[c].pending_outbound = h.pending_outbound
              /\ handlers'[c].tasks = h.tasks
              /\ handlers'[c].peer_id = h.peer_id
              /\ pending_events' = pending_events
              /\ connected' = connected

\* A Handler is polled the same after such an error: its poll yields the queued events
\* first and, these drained, requests the substream of the next message it holds.
C19_StaysUsable ==
    \A c \in DOMAIN handlers :
       /\ handlers[c].pending_events # <<>> => ENABLED HandlerPollEvent(c)
       /\ (handlers[c].pending_events = <<>> /\ handlers[c].pending_outbound # <<>>)
             => ENABLED HandlerPollOutbound(c)

\* C19: both parts: every timeout or rejection step fails exactly the head message as
\* stated, and the Handler is polled for its events and its next request as before.
C19_NegotiationErrorFails == [][C19_Steps]_vars /\ []C19_StaysUsable

\* C19 witness: the first of two messages failed with a negotiation timeout and the
\* second with a protocol rejection, on one connection that is still there.
C19_Witness ==
    \E c \in DOMAIN handlers :
       /\ Len(handlers[c].pending_events) = 2
       /\ handlers[c].pending_events[1].error = "DialUpgradeError"
       /\ handlers[c].pending_events[1].message_id = 0
       /\ handlers[c].pending_events[2].error = "ProtocolNotSupported"
       /\ handlers[c].pending_events[2].message_id = 1
       /\ handlers[c].requested_outbound = <<>>

\* Message m is held in the correlation queue of a Handler that has fewer substream
\* requests outstanding than messages in that queue.
AwaitsRetry(m) ==
    \E c \in ConnectionIds :
       /\ Stranded(c)
       /\ \E i \in 1 .. Len(handlers[c].requested_outbound) :
             handlers[c].requested_outbound[i].message_id = m

\* C20: a message requeued after an I/O error of the negotiation gets a new substream
\* request and, with the polls scheduled fairly and every request answered, is
\* eventually resolved by an event that carries its identifier.
C20_RequeuedIsRetried ==
    \A m \in MessageIds : AwaitsRetry(m) ~> (Resolved(m) \/ TimeoutReported)

----------------------------------------------------------------------------
(* Properties of the Handler's correlation queue and task pool.            *)

\* C21: in every reachable state each Handler's requested_outbound is as long as the
\* list of its substream requests the swarm has not answered yet: no answer finds the
\* queue empty and no message waits in it without a request of its own.
C21_QueueMatchesRequests ==
    \A c \in DOMAIN handlers :
       Len(handlers[c].requested_outbound) = Len(substream_requests[c])

\* The number of elements of sequence q that satisfy Test.
Count(q, Test(_)) == Len(SelectSeq(q, Test))

RECURSIVE SumOver(_, _)
SumOver(f, S) ==
    IF S = {} THEN 0
    ELSE LET x == CHOOSE y \in S : TRUE IN f[x] + SumOver(f, S \ {x})

\* The events in the Behaviour's queue that a finished or expired task produced.
TaskOutcomes ==
    Count(pending_events,
          LAMBDA e : e.type = "GenerateEvent"
                     /\ e.event.type \in {"MessageSent", "ReceivedMessage", "Error"})

\* The messages and tasks that have produced no task outcome: queued for a peer, on
\* their way to a Handler, held by a Handler in a queue or in its pool, or failed by
\* the negotiation.
Held ==
    SumOver([p \in DOMAIN pending_outbound_messages |->
                Len(pending_outbound_messages[p])], DOMAIN pending_outbound_messages)
    + Count(pending_events,
            LAMBDA e : \/ e.type = "NotifyHandler"
                       \/ e.type = "GenerateEvent" /\ e.event.type = "OutboundFailure")
    + SumOver([c \in DOMAIN handlers |->
                  Len(handlers[c].pending_outbound) + Len(handlers[c].requested_outbound)
                  + Len(handlers[c].pending_events) + TasksOf(c)], DOMAIN handlers)

\* C22: every task in a pool can run out of time. The poll that finds a task expired
\* takes exactly that task out of the pool, touches no queue of the Handler and yields
\* exactly one event, the timeout error, which names neither a message nor a peer nor
\* a stream.
C22_Steps ==
    \A c \in ConnectionIds :
       \A task \in {EncodeTask([message_id |-> m]) : m \in MessageIds} \cup {DecodeTask},
          payload \in Payloads :
          HandlerPollTask(c, task, "Timeout", payload) =>
             /\ TasksOf(c)' = TasksOf(c) - 1
             /\ ~ BagIn(task, handlers'[c].tasks)
                   \/ CopiesIn(task, handlers'[c].tasks)
                         = CopiesIn(task, handlers[c].tasks) - 1
             /\ handlers'[c].pending_outbound = handlers[c].pending_outbound
             /\ handlers'[c].requested_outbound = handlers[c].requested_outbound
             /\ handlers'[c].pending_events = handlers[c].pending_events
             /\ Len(pending_events') = Len(pending_events) + 1
             /\ SubSeq(pending_events', 1, Len(pending_events)) = pending_events
             /\ LET e == pending_events'[Len(pending_events')] IN
                /\ e.type = "GenerateEvent"
                /\ DOMAIN e.event = {"type", "error"}
                /\ e.event.type = "Error"
                /\ e.event.error = "Timeout"
             /\ app_events' = app_events

C22_Deadline ==
    \A c \in DOMAIN handlers :
       \A task \in BagToSet(handlers[c].tasks) :
          ENABLED (\E payload \in Payloads : HandlerPollTask(c, task, "Timeout", payload))

\* No task reports twice: the outcomes reported so far, the tasks still in a pool and
\* the messages that never became a task are together no more than the sends and the
\* inbound substreams there were, so an expired task is not followed by a
\* sent-confirmation or a received message of its own.
C22_OneOutcomePerTask == TaskOutcomes + Held <= send_count + inbound_opened

\* C22: the three parts together.
C22_TimeoutAbortsTask ==
    [][C22_Steps]_vars /\ []C22_Deadline /\ []C22_OneOutcomePerTask

\* C22 witness: the encode task of the only message ran out of time: the pool is
\* empty again, the timeout is the only event and no substream was opened inbound.
C22_Witness ==
    \E c \in DOMAIN handlers :
       /\ send_count = 1
       /\ inbound_opened = 0
       /\ TasksOf(c) = 0
       /\ handlers[c].requested_outbound = <<>>
       /\ handlers[c].pending_outbound = <<>>
       /\ TaskOutcomes = 1
       /\ \E i \in 1 .. Len(pending_events) :
             pending_events[i] = GenerateEvent(ErrorEvent("Timeout"))

\* C23: an error of an inbound negotiation leaves every Handler as it is, its
\* pending_outbound, requested_outbound, pending_events and task pool, and nothing is
\* queued for the Router or handed to the application.
C23_Steps ==
    \A c \in ConnectionIds :
       (\E limit \in 1 .. (inbound_opened + 1) : OnListenUpgradeError(c, limit)) =>
          /\ handlers'[c].pending_outbound = handlers[c].pending_outbound
          /\ handlers'[c].requested_outbound = handlers[c].requested_outbound
          /\ handlers'[c].pending_events = handlers[c].pending_events
          /\ handlers'[c].tasks = handlers[c].tasks
          /\ handlers' = handlers
          /\ pending_events' = pending_events
          /\ app_events' = app_events
          /\ substream_requests' = substream_requests

\* C23: every step that is an inbound negotiation error is such a step.
C23_ListenErrorSilent == [][C23_Steps]_vars

\* C23 witness: the one inbound negotiation there was has failed: the Handler holds
\* no task and no event, and neither the Router nor the application has an event.
C23_Witness ==
    \E c \in DOMAIN handlers :
       /\ inbound_opened = 1
       /\ send_count = 0
       /\ TasksOf(c) = 0
       /\ handlers[c].pending_events = <<>>
       /\ pending_events = <<>>
       /\ app_events = EmptyBag

----------------------------------------------------------------------------
(* Properties of the swarm's reports to the Router.                        *)

\* Connection connection_id is in the list the Router keeps for peer_id.
Tracked(peer_id, connection_id) ==
    /\ peer_id \in DOMAIN connected
    /\ \E i \in 1 .. Len(connected[peer_id]) : connected[peer_id][i].id = connection_id

\* C24: an address change for a tracked connection of a peer replaces the remote
\* address of that connection and nothing else; for a peer or connection that is not
\* tracked it changes nothing. Either way the peers' connection lists keep their
\* members and their order, the pending sets, the per-peer queues, the message-id
\* counter and the queued events stay as they are, and no event is emitted.
C24_Steps ==
    \A p \in Peers, c \in ConnectionIds, a \in NewAddrs :
       OnAddressChange(p, c, a) =>
          /\ IF Tracked(p, c)
             THEN /\ DOMAIN connected' = DOMAIN connected
                  /\ \A q \in DOMAIN connected \ {p} : connected'[q] = connected[q]
                  /\ Len(connected'[p]) = Len(connected[p])
                  /\ \A i \in 1 .. Len(connected[p]) :
                        /\ connected'[p][i].id = connected[p][i].id
                        /\ connected'[p][i].pending_messages =
                              connected[p][i].pending_messages
                        /\ connected'[p][i].remote_address =
                              IF connected[p][i].id = c
                              THEN <<a>>
                              ELSE connected[p][i].remote_address
             ELSE connected' = connected
          /\ pending_outbound_messages' = pending_outbound_messages
          /\ next_outbound_message_id' = next_outbound_message_id
          /\ pending_events' = pending_events
          /\ app_events' = app_events
          /\ handlers' = handlers

\* C24: every step that is an address change is such a step.
C24_AddressChangeOnly == [][C24_Steps]_vars

\* C24 witness: a peer has two connections; the first has moved to an address no
\* connection is established at, with a message pending on it, the second is where it
\* was established.
C24_Witness ==
    \E p \in DOMAIN connected :
       /\ Len(connected[p]) = 2
       /\ connected[p][1].remote_address \in {Some(a) : a \in NewAddrs \ Addrs}
       /\ connected[p][1].pending_messages # {}
       /\ connected[p][2].remote_address \in {Some(a) : a \in Addrs}

\* C25: a close reported for a peer that has no entry in the connection map, or for a
\* connection that is not in the peer's list, panics: the step records the panic and
\* leaves the connection map, the pending sets, the per-peer queues and the queued
\* events as they are, with no failure event added.
C25_Steps ==
    \A p \in Peers, c \in ConnectionIds :
       OnConnectionClosedPanics(p, c) =>
          /\ ~ Tracked(p, c)
          /\ panic' # None
          /\ connected' = connected
          /\ pending_outbound_messages' = pending_outbound_messages
          /\ pending_events' = pending_events
          /\ app_events' = app_events
          /\ handlers' = handlers
          /\ next_outbound_message_id' = next_outbound_message_id

\* Such a close has no other outcome: while the Behaviour runs, the close of an
\* untracked connection can only panic, and the close of a tracked one does not.
C25_NoRepair ==
    \A p \in Peers, c \in ConnectionIds :
       IF Tracked(p, c)
       THEN ~ ENABLED OnConnectionClosedPanics(p, c)
       ELSE /\ ENABLED OnConnectionClosedPanics(p, c)
            /\ ~ ENABLED OnConnectionClosed(p, c)

\* C25: the three parts together; the last one: nothing runs after the panic.
C25_UntrackedCloseIsFatal ==
    [][C25_Steps]_vars /\ []C25_NoRepair /\ [][panic = None]_vars

\* C25 witness: the Behaviour has panicked on the close of a connection that is not in
\* the list of a peer that has one, with a message pending on the connection it has.
C25_Witness ==
    /\ panic = Some("Expected connection to be established before closing.")
    /\ \E p \in DOMAIN connected : connected[p][1].pending_messages # {}

----------------------------------------------------------------------------
(* Properties of the order of the substream requests.                      *)

\* The identifiers of the messages of connection c in the order of their substream
\* requests: those requested already, those the Handler holds for its next polls, and
\* those still on their way to the Handler in the Behaviour's event queue.
RequestOrder(c) ==
    substream_requests[c]
    \o [i \in 1 .. Len(handlers[c].pending_outbound) |->
           handlers[c].pending_outbound[i].message_id]
    \o LET notified == SelectSeq(pending_events,
                                 LAMBDA e : e.type = "NotifyHandler" /\ e.handler = c)
       IN  [i \in 1 .. Len(notified) |-> notified[i].event.message_id]

\* C26: while a peer has had one connection only (and the identifiers have not wrapped
\* around), the substream requests on it are issued in the order of the send calls:
\* the messages queued before the connection was established, which are pushed into
\* its Handler, come before those sent afterwards, which travel through the event
\* queue, and each group is in send order.
C26_RequestsInSendOrder ==
    (next_connection_id = 2 /\ send_count < IdModulus) =>
       \A c \in DOMAIN handlers :
          \A i, j \in 1 .. Len(RequestOrder(c)) :
             i < j => RequestOrder(c)[i] < RequestOrder(c)[j]

\* C26 witness: of three messages the first two were queued before the connection was
\* established (their dial requests are still in the event queue) and the third was
\* sent afterwards: the first is requested, the second is next in the Handler and the
\* third waits in the event queue behind the dial requests.
C26_Witness ==
    \E c \in DOMAIN handlers :
       /\ next_connection_id = 2
       /\ substream_requests[c] = <<0>>
       /\ Len(handlers[c].pending_outbound) = 1
       /\ handlers[c].pending_outbound[1].message_id = 1
       /\ Len(pending_events) = 3
       /\ pending_events[1].type = "Dial"
       /\ pending_events[2].type = "Dial"
       /\ pending_events[3].type = "NotifyHandler"
       /\ pending_events[3].event.message_id = 2

====
